---------------------------- MODULE Spec2Model ----------------------------
(***************************************************************************)
(* Model of src/src/document_automation.py: the DocumentEngine's template  *)
(* upsert, render, export and aggregate-status operations over the SQLite  *)
(* tables templates / documents / export_records and the export directory. *)
(*                                                                         *)
(* Text is a sequence of one-character strings, so that the regular        *)
(* expression  \{\{([^}]+)\}\}  , str.strip, json.dumps and the export     *)
(* wrappers are computed character by character as the code computes them, *)
(* and a file's byte size is the length of its (ASCII) body.               *)
(***************************************************************************)
EXTENDS Integers, Sequences, FiniteSets, TLC

(***************************************************************************)
(* Bounds of the model.                                                    *)
(***************************************************************************)
\* the calls that change the store in one run of each specification
MaxCalls == 5
TplMaxCalls == 4
RndMaxCalls == 3
FrmMaxCalls == 5
\* the clock ticks in one run
MaxClock == 1

(***************************************************************************)
(* Inputs the operations are called with.                                  *)
(***************************************************************************)
Names == {"x", "y"}

Categories == {"general", "legal"}

\* "{{a}}"
ContentA == <<"{", "{", "a", "}", "}">>

\* "{{ b }}{{a}}{{b}}": a padded name, a repeated name, b before a
ContentBAB == <<"{", "{", " ", "b", " ", "}", "}", "{", "{", "a", "}", "}",
                "{", "{", "b", "}", "}">>

\* "{{a}{{a}}}": unmatched braces around a placeholder
ContentNest == <<"{", "{", "a", "}", "{", "{", "a", "}", "}", "}">>

\* "{{a}}a}}": a placeholder followed by text that closes a token
ContentTail == <<"{", "{", "a", "}", "}", "a", "}", "}">>

\* "{{{a}}": the placeholder name is "{a"
ContentBrace == <<"{", "{", "{", "a", "}", "}">>

\* "hi": no placeholder
ContentPlain == <<"h", "i">>

Contents == {ContentA, ContentBAB, ContentNest, ContentTail, ContentBrace,
             ContentPlain}

\* A variable mapping is a Python dict: key/value pairs in insertion order.
VarsA == <<[k |-> <<"a">>, v |-> <<"x">>]>>

VarsB == <<[k |-> <<"b">>, v |-> <<"y">>]>>

VarsAB == <<[k |-> <<"a">>, v |-> <<"x">>], [k |-> <<"b">>, v |-> <<"y", "z">>]>>

VarsEmpty == <<[k |-> <<"a">>, v |-> <<>>]>>

VarsToken == <<[k |-> <<"a">>, v |-> <<"{", "{", "a", "}", "}">>]>>

Mappings == {VarsB, VarsAB, VarsEmpty, VarsToken}

RenderFormats == {"txt", "html"}

\* the optional fmt argument of export_document: None is ""
ExportFormats == {"", "md"}

\* how many characters reach the file when the write is interrupted
TornLengths == {0}

(***************************************************************************)
(* re, str and json helpers.                                               *)
(***************************************************************************)
IsSpace(c) == c \in {" ", "\t", "\n", "\r"}

RECURSIVE lstrip(_)
lstrip(s) == IF s # <<>> /\ IsSpace(s[1]) THEN lstrip(Tail(s)) ELSE s

RECURSIVE rstrip(_)
rstrip(s) ==
    IF s # <<>> /\ IsSpace(s[Len(s)]) THEN rstrip(SubSeq(s, 1, Len(s) - 1)) ELSE s

strip(s) == rstrip(lstrip(s))

\* the first index >= from that holds "}", or Len(s) + 1: where [^}]+ stops
FirstClose(s, from) ==
    IF \E j \in from..Len(s) : s[j] = "}"
    THEN CHOOSE j \in from..Len(s) :
            s[j] = "}" /\ \A k \in from..(j - 1) : s[k] # "}"
    ELSE Len(s) + 1

\* r"\{\{([^}]+)\}\}" anchored at i: the index of the match's last character, or 0
MatchAt(s, i) ==
    IF i + 1 <= Len(s) /\ s[i] = "{" /\ s[i + 1] = "{"
    THEN LET q == FirstClose(s, i + 2)
         IN IF q > i + 2 /\ q + 1 <= Len(s) /\ s[q + 1] = "}" THEN q + 1 ELSE 0
    ELSE 0

\* m.group(1) of the match from i to e
Group1(s, i, e) == SubSeq(s, i + 2, e - 2)

\* re.findall: group 1 of the leftmost non-overlapping matches from p on
RECURSIVE findall(_, _)
findall(s, p) ==
    IF p > Len(s) THEN <<>>
    ELSE LET e == MatchAt(s, p)
         IN IF e = 0 THEN findall(s, p + 1)
            ELSE <<Group1(s, p, e)>> \o findall(s, e + 1)

InSeq(x, seq) == \E i \in 1..Len(seq) : seq[i] = x

\* list(dict.fromkeys(seq)): first occurrences, in order
RECURSIVE dict_fromkeys(_, _)
dict_fromkeys(seq, seen) ==
    IF seq = <<>> THEN seen
    ELSE dict_fromkeys(Tail(seq),
                       IF InSeq(seq[1], seen) THEN seen ELSE Append(seen, seq[1]))

HasKey(variables, key) == \E i \in 1..Len(variables) : variables[i].k = key

GetItem(variables, key) ==
    variables[CHOOSE i \in 1..Len(variables) : variables[i].k = key].v

\* json.dumps of one string
JsonEscape(c) == IF c = "\"" \/ c = "\\" THEN <<"\\", c>> ELSE <<c>>

RECURSIVE JsonChars(_)
JsonChars(s) == IF s = <<>> THEN <<>> ELSE JsonEscape(s[1]) \o JsonChars(Tail(s))

JsonString(s) == <<"\"">> \o JsonChars(s) \o <<"\"">>

\* json.dumps of a list of strings: ["b", "a"]
RECURSIVE JsonItems(_)
JsonItems(list) ==
    IF list = <<>> THEN <<>>
    ELSE JsonString(list[1])
         \o (IF Len(list) > 1 THEN <<",", " ">> ELSE <<>>)
         \o JsonItems(Tail(list))

json_dumps_list(list) == <<"[">> \o JsonItems(list) \o <<"]">>

\* json.dumps of a dict of strings: {"a": "x"}
RECURSIVE JsonPairs(_)
JsonPairs(d) ==
    IF d = <<>> THEN <<>>
    ELSE JsonString(d[1].k) \o <<":", " ">> \o JsonString(d[1].v)
         \o (IF Len(d) > 1 THEN <<",", " ">> ELSE <<>>)
         \o JsonPairs(Tail(d))

json_dumps_dict(d) == <<"{">> \o JsonPairs(d) \o <<"}">>

(***************************************************************************)
(* Rendering.                                                              *)
(***************************************************************************)
\* re.sub with the replace callback, from p on: the text, or the KeyError of
\* the first placeholder whose stripped name is not a key of variables
RECURSIVE re_sub(_, _, _)
re_sub(content, p, variables) ==
    IF p > Len(content) THEN [raised |-> "", key |-> <<>>, text |-> <<>>]
    ELSE LET e == MatchAt(content, p)
         IN IF e = 0
            THEN LET rest == re_sub(content, p + 1, variables)
                 IN IF rest.raised # "" THEN rest
                    ELSE [rest EXCEPT !.text = <<content[p]>> \o @]
            ELSE LET key == strip(Group1(content, p, e))
                 IN IF ~HasKey(variables, key)
                    THEN [raised |-> "KeyError", key |-> key, text |-> <<>>]
                    ELSE LET rest == re_sub(content, e + 1, variables)
                         IN IF rest.raised # "" THEN rest
                            ELSE [rest EXCEPT
                                    !.text = GetItem(variables, key) \o @]

\* as _render, but an unknown placeholder is no error
_render_partial(content, variables) ==
    [re_sub(content, 1, variables) EXCEPT !.raised = ""]

\* as _render with re.sub(..., count=1): only the first placeholder is replaced
_render_once(content, variables) ==
    IF \A p \in 1..Len(content) : MatchAt(content, p) = 0
    THEN [raised |-> "", key |-> <<>>, text |-> content]
    ELSE LET p == CHOOSE p \in 1..Len(content) :
                     /\ MatchAt(content, p) # 0
                     /\ \A q \in 1..(p - 1) : MatchAt(content, q) = 0
             e == MatchAt(content, p)
             key == strip(Group1(content, p, e))
         IN IF ~HasKey(variables, key)
            THEN [raised |-> "KeyError", key |-> key, text |-> <<>>]
            ELSE [raised |-> "", key |-> <<>>,
                  text |-> SubSeq(content, 1, p - 1) \o GetItem(variables, key)
                           \o SubSeq(content, e + 1, Len(content))]

_render(content, variables) == re_sub(content, 1, variables)

RECURSIVE StripAll(_)
StripAll(seq) == IF seq = <<>> THEN <<>> ELSE <<strip(seq[1])>> \o StripAll(Tail(seq))

\* as _extract_vars without dict.fromkeys: repeated names stay
_extract_vars_repeated(content) == StripAll(findall(content, 1))

_extract_vars(content) == dict_fromkeys(StripAll(findall(content, 1)), <<>>)

(***************************************************************************)
(* The store: the three tables, the export directory and the clock.        *)
(***************************************************************************)
VARIABLES
    templates,       \* rows of table templates, in id order
    documents,       \* rows of table documents, in id order
    export_records,  \* rows of table export_records, in id order
    files,           \* DOCS_DIR: file path -> file body
    now,             \* datetime.utcnow(), in clock ticks
    last,            \* the last call: its arguments and what it returned or raised
    upserts,         \* history: per template name, the create_template calls made
    crashes          \* history: export_document calls that died in the file write

vars == <<templates, documents, export_records, files, now, last, upserts, crashes>>

store == <<templates, documents, export_records, files>>

\* datetime.isoformat(): date and seconds, then the sub-second part
isoformat(t) == <<t \div 2, t % 2>>

\* strftime("%Y%m%d_%H%M%S"): second resolution; the seconds field is two digits
Digit(n) == CASE n = 0 -> "0" [] n = 1 -> "1" [] n = 2 -> "2" [] n = 3 -> "3"
              [] n = 4 -> "4" [] n = 5 -> "5" [] n = 6 -> "6" [] n = 7 -> "7"
              [] n = 8 -> "8" [] n = 9 -> "9"

strftime(t) == <<"%Y%m%d_%H%M", Digit(((t \div 2) % 60) \div 10),
                 Digit(((t \div 2) % 60) % 10)>>

NoTemplate == [id |-> 0, name |-> "", content |-> <<>>, variables |-> <<>>,
               category |-> "", version |-> 0, created_at |-> <<>>,
               updated_at |-> <<>>]

NoDocument == [id |-> 0, template_id |-> 0, template_name |-> "", title |-> <<>>,
               content |-> <<>>, variables_used |-> <<>>, fmt |-> "",
               status |-> "", created_at |-> <<>>]

NoExportRecord == [id |-> 0, document_id |-> 0, export_path |-> <<>>,
                   export_format |-> "", file_size_bytes |-> 0,
                   exported_at |-> <<>>]

NoStatus == [templates |-> 0, documents |-> 0, drafts |-> 0, exported |-> 0,
             total_exports |-> 0]

NoCall == [op |-> "", raised |-> "", name |-> "", variables |-> <<>>,
           template |-> NoTemplate,
           document |-> NoDocument, export_record |-> NoExportRecord,
           status |-> NoStatus]

Init ==
    /\ templates = <<>>
    /\ documents = <<>>
    /\ export_records = <<>>
    /\ files = <<>>
    /\ now = 0
    /\ last = NoCall
    /\ upserts = [n \in Names |-> [calls |-> 0, content |-> <<>>]]
    /\ crashes = 0

\* SELECT ... FROM templates WHERE name=?  : the row's index, or 0
TemplateByName(name) ==
    IF \E i \in 1..Len(templates) : templates[i].name = name
    THEN CHOOSE i \in 1..Len(templates) : templates[i].name = name
    ELSE 0

\* SELECT * FROM documents WHERE id=?  : the row's index, or 0
DocumentById(doc_id) ==
    IF \E i \in 1..Len(documents) : documents[i].id = doc_id
    THEN CHOOSE i \in 1..Len(documents) : documents[i].id = doc_id
    ELSE 0

TotalUpserts == upserts["x"].calls + upserts["y"].calls

(***************************************************************************)
(* DocumentEngine.create_template                                          *)
(***************************************************************************)
\* as NextVersion, but the version is not bumped
NextVersionStuck(existing) == existing.version

NextVersion(existing) == existing.version + 1

\* the UPDATE of the update branch
UpdatedTemplate(existing, content, variables, category, ver, ts) ==
    [existing EXCEPT !.content = content, !.variables = variables,
                     !.category = category, !.version = ver, !.updated_at = ts]

\* the Template the call returns
ReturnedTemplate(tid, name, content, variables, category, ver, ts) ==
    [id |-> tid, name |-> name, content |-> content, variables |-> variables,
     category |-> category, version |-> ver, created_at |-> ts, updated_at |-> ts]

create_template(name, content, category) ==
    /\ LET variables == json_dumps_list(_extract_vars(content))
           ts == isoformat(now)
           i == TemplateByName(name)
           ver == IF i # 0 THEN NextVersion(templates[i]) ELSE 1
           tid == IF i # 0 THEN templates[i].id ELSE Len(templates) + 1
       IN /\ templates' =
                IF i # 0
                THEN [templates EXCEPT
                        ![i] = UpdatedTemplate(@, content, variables, category,
                                               ver, ts)]
                ELSE Append(templates,
                            [id |-> tid, name |-> name, content |-> content,
                             variables |-> variables, category |-> category,
                             version |-> ver, created_at |-> ts,
                             updated_at |-> ts])
          /\ last' = [NoCall EXCEPT
                        !.op = "create_template", !.name = name,
                        !.template = ReturnedTemplate(tid, name, content,
                                                      variables, category, ver, ts)]
    /\ upserts' = [upserts EXCEPT ![name] = [calls |-> @.calls + 1,
                                             content |-> content]]
    /\ UNCHANGED <<documents, export_records, files, now, crashes>>

(***************************************************************************)
(* DocumentEngine.render                                                   *)
(***************************************************************************)
render(template_name, title, variables, fmt) ==
    /\ LET i == TemplateByName(template_name)
           call == [NoCall EXCEPT !.op = "render", !.name = template_name,
                                  !.variables = variables]
       IN IF i = 0
          THEN /\ last' = [call EXCEPT !.raised = "KeyError"]
               /\ UNCHANGED documents
          ELSE LET row == templates[i]
                   out == _render(row.content, variables)
                   ts == isoformat(now)
                   doc == [id |-> Len(documents) + 1, template_id |-> row.id,
                           template_name |-> template_name, title |-> title,
                           content |-> out.text,
                           variables_used |-> json_dumps_dict(variables),
                           fmt |-> fmt, status |-> "draft", created_at |-> ts]
               IN IF out.raised # ""
                  THEN /\ last' = [call EXCEPT !.raised = "ValueError"]
                       /\ UNCHANGED documents
                  ELSE /\ documents' = Append(documents, doc)
                       /\ last' = [call EXCEPT !.document = doc]
    /\ UNCHANGED <<templates, export_records, files, now, upserts, crashes>>

(***************************************************************************)
(* DocumentEngine.export_document                                          *)
(***************************************************************************)
IsWord(c) == c \in {"a", "b", "c", "h", "i", "x", "y", "z", "_",
                    "0", "1", "2", "3", "4", "5", "6", "7", "8", "9"}

\* re.sub(r"[^\w\-]", "_", title)
RECURSIVE safe_title(_)
safe_title(title) ==
    IF title = <<>> THEN <<>>
    ELSE <<IF IsWord(title[1]) \/ title[1] = "-" THEN title[1] ELSE "_">>
         \o safe_title(Tail(title))

\* DOCS_DIR / f"{safe_title}_{ts_tag}.{export_fmt}"
out_path(title, t, export_fmt) ==
    <<"DOCS_DIR", "/">> \o safe_title(title) \o <<"_">> \o strftime(t)
    \o <<".", export_fmt>>

HtmlHead == <<"<", "!", "D", "O", "C", "T", "Y", "P", "E", " ", "h", "t", "m",
              "l", ">", "<", "h", "t", "m", "l", ">", "<", "h", "e", "a", "d",
              ">", "<", "t", "i", "t", "l", "e", ">">>

HtmlMid == <<"<", "/", "t", "i", "t", "l", "e", ">", "<", "/", "h", "e", "a",
             "d", ">", "<", "b", "o", "d", "y", ">", "<", "h", "1", ">">>

HtmlPre == <<"<", "/", "h", "1", ">", "<", "p", "r", "e", ">">>

HtmlTail == <<"<", "/", "p", "r", "e", ">", "<", "/", "b", "o", "d", "y", ">",
              "<", "/", "h", "t", "m", "l", ">">>

\* the body written for a row in a format
Body(row, export_fmt) ==
    IF export_fmt = "html"
    THEN HtmlHead \o row.title \o HtmlMid \o row.title \o HtmlPre
         \o row.content \o HtmlTail
    ELSE IF export_fmt = "md"
    THEN <<"#", " ">> \o row.title \o <<"\n", "\n">> \o row.content \o <<"\n">>
    ELSE row.content

\* Path.write_text: the file is created or replaced
write_text(path, body) == [p \in DOMAIN files \cup {path} |->
                             IF p = path THEN body ELSE files[p]]

\* as MarkExported with the status 'final'
MarkFinal(row, export_fmt) == [row EXCEPT !.status = "final"]

\* as MarkExported, but the export format is written to the row as well
MarkExportedFmt(row, export_fmt) ==
    [row EXCEPT !.status = "exported", !.fmt = export_fmt]

\* UPDATE documents SET status='exported' WHERE id=?
MarkExported(row, export_fmt) == [row EXCEPT !.status = "exported"]

export_document(doc_id, fmt) ==
    /\ LET i == DocumentById(doc_id)
           call == [NoCall EXCEPT !.op = "export_document"]
       IN IF i = 0
          THEN /\ last' = [call EXCEPT !.raised = "KeyError"]
               /\ UNCHANGED <<documents, export_records, files>>
          ELSE LET row == documents[i]
                   export_fmt == IF fmt # "" THEN fmt ELSE row.fmt
                   path == out_path(row.title, now, export_fmt)
                   body == Body(row, export_fmt)
                   rec == [id |-> Len(export_records) + 1, document_id |-> doc_id,
                           export_path |-> path, export_format |-> export_fmt,
                           file_size_bytes |-> Len(body),
                           exported_at |-> isoformat(now)]
               IN /\ files' = write_text(path, body)
                  /\ export_records' = Append(export_records, rec)
                  /\ documents' = [documents EXCEPT
                                     ![i] = MarkExported(@, export_fmt)]
                  /\ last' = [call EXCEPT !.export_record = rec]
    /\ UNCHANGED <<templates, now, upserts, crashes>>

\* the process dies inside write_text: k characters reached the file, and
\* neither INSERT nor UPDATE was executed
export_document_crash(doc_id, fmt, k) ==
    /\ DocumentById(doc_id) # 0
    /\ LET row == documents[DocumentById(doc_id)]
           export_fmt == IF fmt # "" THEN fmt ELSE row.fmt
           path == out_path(row.title, now, export_fmt)
           body == Body(row, export_fmt)
       IN /\ k <= Len(body)
          /\ files' = write_text(path, SubSeq(body, 1, k))
    /\ crashes' = crashes + 1
    /\ last' = [NoCall EXCEPT !.op = "export_document", !.raised = "crash"]
    /\ UNCHANGED <<templates, documents, export_records, now, upserts>>

(***************************************************************************)
(* DocumentEngine.pipeline_status                                          *)
(***************************************************************************)
CountStatus(s) == Len(SelectSeq(documents, LAMBDA d : d.status = s))

\* as StatusCounts, but total_exports counts the exported documents
StatusCountsPerDocument ==
    [templates |-> Len(templates),
     documents |-> Len(documents),
     drafts |-> CountStatus("draft"),
     exported |-> CountStatus("exported"),
     total_exports |-> CountStatus("exported")]

StatusCounts ==
    [templates |-> Len(templates),
     documents |-> Len(documents),
     drafts |-> CountStatus("draft"),
     exported |-> CountStatus("exported"),
     total_exports |-> Len(export_records)]

pipeline_status ==
    /\ last' = [NoCall EXCEPT !.op = "pipeline_status", !.status = StatusCounts]
    /\ UNCHANGED <<templates, documents, export_records, files, now, upserts,
                   crashes>>

\* time passes between calls
Tick ==
    /\ now' = now + 1
    /\ UNCHANGED <<templates, documents, export_records, files, last, upserts,
                   crashes>>

\* the calls made so far that changed the store
Calls == TotalUpserts + Len(documents) + Len(export_records) + crashes

\* The calls made with inputs drawn from I, at most max of them changing
\* the store.
NextOver(I, max) ==
    \/ /\ Calls < max
       /\ \E name \in I.names, content \in I.contents, category \in I.categories :
             create_template(name, content, category)
    \/ /\ Calls < max
       /\ \E name \in I.names, title \in I.titles, variables \in I.mappings,
             fmt \in I.render_formats :
             render(name, title, variables, fmt)
    \/ /\ Calls < max
       /\ \E doc_id \in 1..(Len(documents) + 1), fmt \in I.export_formats :
             export_document(doc_id, fmt)
    \/ /\ Calls < max
       /\ \E doc_id \in 1..Len(documents), fmt \in I.export_formats,
             k \in TornLengths :
             export_document_crash(doc_id, fmt, k)
    \/ pipeline_status
    \/ now < MaxClock /\ Tick

\* Document lifecycle: one template, documents of different sizes under one
\* title, exported in their own format.
Next ==
    NextOver([names |-> {"x"}, contents |-> {ContentA},
              categories |-> {"general"}, titles |-> {<<"a", " ", "b">>},
              mappings |-> {VarsA, VarsEmpty}, render_formats |-> {"txt"},
              export_formats |-> {""}],
             MaxCalls)

Spec == Init /\ [][Next]_vars

\* Template upserts: two names, contents with different placeholder lists.
NextTemplates ==
    NextOver([names |-> Names, contents |-> {ContentBAB, ContentNest},
              categories |-> {"legal"}, titles |-> {<<"a", "_", "b">>},
              mappings |-> {VarsAB}, render_formats |-> {"txt"},
              export_formats |-> {""}],
             TplMaxCalls)

SpecTemplates == Init /\ [][NextTemplates]_vars

\* Rendering: every content and category against every mapping.
NextRender ==
    NextOver([names |-> {"x"}, contents |-> Contents,
              categories |-> Categories, titles |-> {<<"a", " ", "b">>},
              mappings |-> Mappings, render_formats |-> {"txt"},
              export_formats |-> {""}],
             RndMaxCalls)

SpecRender == Init /\ [][NextRender]_vars

\* Documents under later upserts, renders and exports with a format override.
NextFrame ==
    NextOver([names |-> {"x"}, contents |-> {ContentA, ContentPlain},
              categories |-> {"general"}, titles |-> {<<"a", " ", "b">>},
              mappings |-> {VarsA}, render_formats |-> {"html"},
              export_formats |-> ExportFormats],
             FrmMaxCalls)

SpecFrame == Init /\ [][NextFrame]_vars

(***************************************************************************)
(* The claims.                                                             *)
(***************************************************************************)
Range(seq) == {seq[i] : i \in 1..Len(seq)}

RecordsOf(doc) ==
    {r \in 1..Len(export_records) : export_records[r].document_id = doc.id}

\* C1: every document's status is 'draft' or 'exported', never 'final'; it
\* is 'exported' exactly when some export record references the document;
\* a new document starts 'draft', leaves 'draft' only in a step that adds an
\* export record for it, and once 'exported' stays 'exported', also when it
\* is exported again.
C1_StatusInv ==
    \A i \in 1..Len(documents) :
        /\ documents[i].status \in {"draft", "exported"}
        /\ documents[i].status = "exported" <=> RecordsOf(documents[i]) # {}

C1_StatusStep ==
    /\ Len(documents') >= Len(documents)
    /\ \A i \in 1..Len(documents) :
          /\ documents[i].status = "exported" => documents'[i].status = "exported"
          /\ (documents[i].status = "draft" /\ documents'[i].status # "draft")
                => /\ Len(export_records') = Len(export_records) + 1
                   /\ export_records'[Len(export_records')].document_id
                         = documents[i].id
                   /\ last'.op = "export_document" /\ last'.raised = ""
    /\ \A i \in (Len(documents) + 1)..Len(documents') :
          documents'[i].status = "draft"

C1_StatusLifecycle == []C1_StatusInv /\ [][C1_StatusStep]_vars

\* C1 witness: one document exported twice and still 'exported', beside a
\* document that was rendered and never exported.
C1_Witness ==
    /\ Len(documents) = 2
    /\ documents[1].status = "exported"
    /\ Cardinality(RecordsOf(documents[1])) = 2
    /\ documents[2].status = "draft"
    /\ last.op = "export_document" /\ last.raised = ""

\* C2: the export records have pairwise different paths: no export writes
\* to the path of an earlier export.
C2_DistinctPaths ==
    \A i, j \in 1..Len(export_records) :
        i # j => export_records[i].export_path # export_records[j].export_path

\* C3: for every template name n the stored version is the number of
\* create_template calls made with n and the stored content that of the
\* latest of them (no row before the first call); a step that makes no
\* create_template call with n leaves n's row, its version, content and id,
\* as it was.
C3_VersionInv ==
    \A n \in Names :
        LET i == TemplateByName(n)
        IN IF upserts[n].calls = 0 THEN i = 0
           ELSE /\ i # 0
                /\ templates[i].version = upserts[n].calls
                /\ templates[i].content = upserts[n].content

C3_OtherNameStep ==
    /\ Len(templates') >= Len(templates)
    /\ \A i \in 1..Len(templates) :
          /\ templates'[i].id = templates[i].id
          /\ templates'[i].name = templates[i].name
          /\ upserts'[templates[i].name].calls = upserts[templates[i].name].calls
                => /\ templates'[i].version = templates[i].version
                   /\ templates'[i].content = templates[i].content

C3_Versioning == []C3_VersionInv /\ [][C3_OtherNameStep]_vars

\* C3 witness: "x" was upserted twice, the second time with another
\* content, and is stored at version 2 with that content.
C3_Witness ==
    /\ last.op = "create_template" /\ last.name = "x"
    /\ upserts["x"].calls = 2
    /\ templates[TemplateByName("x")].version = 2
    /\ templates[TemplateByName("x")].content = ContentNest
    /\ templates[TemplateByName("x")].created_at
          # templates[TemplateByName("x")].updated_at

\* the placeholder names of the template a render call names
MissingNames(name, variables) ==
    {n \in Range(_extract_vars(templates[TemplateByName(name)].content)) :
        ~HasKey(variables, n)}

\* C4: a render call that names an existing template and whose mapping
\* lacks one of the template's placeholder names raises ValueError (not the
\* KeyError of a template that is not found), returns no document and adds
\* no document row.
C4_MissingVariable ==
    [][(/\ last'.op = "render"
        /\ TemplateByName(last'.name) # 0
        /\ MissingNames(last'.name, last'.variables) # {})
          => /\ last'.raised = "ValueError"
             /\ last'.raised # "KeyError"
             /\ last'.document = NoDocument
             /\ documents' = documents]_vars

\* C4 witness: "{{ b }}{{a}}{{b}}" rendered with only b: the first
\* placeholder is known, the second is not, and the call raised ValueError.
C4_Witness ==
    /\ last.op = "render" /\ last.raised = "ValueError"
    /\ last.variables = VarsB
    /\ TemplateByName(last.name) # 0
    /\ templates[TemplateByName(last.name)].content = ContentBAB
    /\ documents = <<>>

\* text holds "{{" X "}}" with X non-empty and free of "}", and the name
\* strip(X) in P
HasTokenNamed(text, P) ==
    \E i, j \in 1..Len(text) :
        /\ j >= i + 3 /\ j + 1 <= Len(text)
        /\ text[i] = "{" /\ text[i + 1] = "{"
        /\ text[j] = "}" /\ text[j + 1] = "}"
        /\ \A k \in (i + 2)..(j - 1) : text[k] # "}"
        /\ strip(SubSeq(text, i + 2, j - 1)) \in P

HasToken(text) ==
    \E i, j \in 1..Len(text) :
        /\ j >= i + 3 /\ j + 1 <= Len(text)
        /\ text[i] = "{" /\ text[i + 1] = "{"
        /\ text[j] = "}" /\ text[j + 1] = "}"
        /\ \A k \in (i + 2)..(j - 1) : text[k] # "}"

\* a step in which render stored a document
Rendered == last'.op = "render" /\ Len(documents') = Len(documents) + 1

PlainValue(v) == v # <<>> /\ \A k \in 1..Len(v) : v[k] \notin {"{", "}"}

\* C5 as claimed: the content of a document render stores holds no
\* {{name}} token with name among the placeholders of the template content.
C5_NoPlaceholderLeft ==
    [][Rendered =>
         ~HasTokenNamed(documents'[Len(documents')].content,
                        Range(_extract_vars(
                            templates[TemplateByName(last'.name)].content)))]_vars

\* C5 amended: when the value of every placeholder of the template is a
\* non-empty string without "{" and "}", the content of the document
\* render stores holds no {{...}} token at all.
C5_NoTokenForPlainValues ==
    [][(/\ Rendered
        /\ \A n \in Range(_extract_vars(
                      templates[TemplateByName(last'.name)].content)) :
              /\ HasKey(last'.variables, n)
              /\ PlainValue(GetItem(last'.variables, n)))
          => ~HasToken(documents'[Len(documents')].content)]_vars

\* C5 witness: "{{a}{{a}}}" rendered with a = "x" is stored as "{{a}x}":
\* braces of the template remain, and no token.
C5_Witness ==
    /\ last.op = "render" /\ last.raised = ""
    /\ last.variables = VarsAB
    /\ Len(documents) = 1
    /\ documents[1].content = <<"{", "{", "a", "}", "x", "}">>

\* the index of the first occurrence of x in seq
FirstIndex(seq, x) ==
    CHOOSE i \in 1..Len(seq) : seq[i] = x /\ \A k \in 1..(i - 1) : seq[k] # x

\* list holds each stripped placeholder name of content once, in the order
\* of the names' first occurrences
IsVariableList(list, content) ==
    LET names == StripAll(findall(content, 1))
    IN /\ \A i, j \in 1..Len(list) : i # j => list[i] # list[j]
       /\ Range(list) = Range(names)
       /\ \A i, j \in 1..Len(list) :
             i < j => FirstIndex(names, list[i]) < FirstIndex(names, list[j])

\* C6: each stored template's variables column is the JSON list of the
\* stripped placeholder names of its stored content, each once, in
\* first-occurrence order.
C6_VariablesOfContent ==
    \A i \in 1..Len(templates) :
        \E list \in {_extract_vars(templates[i].content)} :
            /\ IsVariableList(list, templates[i].content)
            /\ templates[i].variables = json_dumps_list(list)

\* C6 witness: a template updated to "{{ b }}{{a}}{{b}}" stores ["b", "a"].
C6_Witness ==
    \E i \in 1..Len(templates) :
        /\ templates[i].version = 2
        /\ templates[i].content = ContentBAB
        /\ templates[i].variables
              = <<"[", "\"", "b", "\"", ",", " ", "\"", "a", "\"", "]">>

\* C7: the Template create_template returned equals the row stored under
\* its name, field by field.
C7_ReturnsStoredRow ==
    last.op = "create_template"
        => last.template = templates[TemplateByName(last.name)]

\* C8: every export record's path names a file whose size is the record's
\* file_size_bytes.
C8_RecordMatchesFile ==
    \A r \in 1..Len(export_records) :
        /\ export_records[r].export_path \in DOMAIN files
        /\ Len(files[export_records[r].export_path])
              = export_records[r].file_size_bytes

\* C9: pipeline_status changes nothing stored and returns the number of
\* template rows, of document rows, of documents with status 'draft', of
\* documents with status 'exported', and of export records (all zero on an
\* empty store).
C9_Counts ==
    [][last'.op = "pipeline_status"
         => /\ store' = store
            /\ last'.status.templates = Cardinality(DOMAIN templates)
            /\ last'.status.documents = Cardinality(DOMAIN documents)
            /\ last'.status.drafts
                  = Cardinality({i \in DOMAIN documents :
                                    documents[i].status = "draft"})
            /\ last'.status.exported
                  = Cardinality({i \in DOMAIN documents :
                                    documents[i].status = "exported"})
            /\ last'.status.total_exports = Cardinality(DOMAIN export_records)
            /\ (templates = <<>> /\ documents = <<>> /\ export_records = <<>>
                  => last'.status = NoStatus)]_vars

\* C9 witness: pipeline_status on a store of 1 template, 2 documents (1
\* draft, 1 exported) and 2 export records returned those counts.
C9_Witness ==
    /\ last.op = "pipeline_status"
    /\ last.status = [templates |-> 1, documents |-> 2, drafts |-> 1,
                      exported |-> 1, total_exports |-> 2]

\* C10: no step changes an existing document's content, title,
\* template_name, template_id, variables_used or fmt, or removes the row.
C10_DocumentsImmutable ==
    [][/\ Len(documents') >= Len(documents)
       /\ \A i \in 1..Len(documents) :
             /\ documents'[i].id = documents[i].id
             /\ documents'[i].content = documents[i].content
             /\ documents'[i].title = documents[i].title
             /\ documents'[i].template_name = documents[i].template_name
             /\ documents'[i].template_id = documents[i].template_id
             /\ documents'[i].variables_used = documents[i].variables_used
             /\ documents'[i].fmt = documents[i].fmt]_vars

\* C10 witness: document 1 was rendered from "{{a}}", its template was
\* then upserted to "hi", document 2 was rendered from that, and document 1
\* (stored format html) was exported as md: document 1 still reads "x" / html.
C10_Witness ==
    /\ Len(documents) = 2
    /\ templates[1].version = 2 /\ templates[1].content = ContentPlain
    /\ documents[1].content = <<"x">> /\ documents[1].fmt = "html"
    /\ documents[1].status = "exported"
    /\ documents[2].content = ContentPlain
    /\ Len(export_records) = 1
    /\ export_records[1].document_id = 1
    /\ export_records[1].export_format = "md"

=============================================================================
